---- MODULE Spec2Model ----
(***************************************************************************)
(* POS API (src/main.py): the two endpoints search_product and purchase,   *)
(* the context manager get_db_cursor they share, and the MySQL store they  *)
(* talk to through one pymysql connection per call.                        *)
(*                                                                         *)
(* Every call is a process p with a program counter pc[p].  Each storage   *)
(* operation (connect, execute, commit, rollback) is one step that either  *)
(* succeeds or raises.  The store is a transactional engine: the writes of *)
(* a connection stay in pend[p] until its commit, and are discarded by     *)
(* rollback or by closing the connection with the transaction open.  A     *)
(* commit that raises has committed nothing.                                *)
(* The DATETIME column of t_txn is left out: nothing reads it.             *)
(***************************************************************************)
EXTENDS Integers, Sequences, FiniteSets, TLC

\* ---------------------------------------------------------------- bounds
NumCalls == 2
MaxItems == 2
MaxQty == 3

Procs == 1..NumCalls

\* ------------------------------------------------------------ text tokens
\* Texts are sequences of tokens; a token is one literal of the source or
\* one text produced by the backend.
Absent == "<absent>"
None == "<None>"
Sentinel == "9999999999"
DefaultStoreCd == "30"
DefaultPosNo == "90"
TaxCd == "10"
\* the source's Japanese literals, named in English
MsgNoCode == "<product code is required>"
MsgNoItems == "<no items to purchase>"
MsgNoConnection == "<could not connect to the database>"
PrefixDb == "<database error>: "
PrefixSearch == "<product search error>: "
PrefixPurchase == "<purchase processing error>: "
\* str(err) of a pymysql.Error: the backend's own error text
RawBackendText == "(1064, 'You have an error in your SQL syntax ... INSERT INTO t_txn')"
\* str(e) of an exception of the body that is no pymysql.Error
BodyErrorText == "TypeError: not all arguments converted during string formatting"

NoException == [type |-> "none", status |-> 0, detail |-> <<>>]
PyMySqlError == [type |-> "pymysql.Error", status |-> 0, detail |-> <<RawBackendText>>]
BodyException == [type |-> "Exception", status |-> 0, detail |-> <<BodyErrorText>>]
\* what a failing cursor.execute can raise
ExecuteErrors == {PyMySqlError, BodyException}

HTTPException(status_code, detail) ==
    [type |-> "HTTPException", status |-> status_code, detail |-> detail]

StatusText(status_code) ==
    CASE status_code = 400 -> "400: "
      [] status_code = 500 -> "500: "
      [] status_code = 503 -> "503: "
      [] OTHER -> "?: "

\* str(e): an HTTPException prints as "<status_code>: <detail>", any other
\* exception as its message.
Str(e) ==
    IF e.type = "HTTPException" THEN <<StatusText(e.status)>> \o e.detail
    ELSE e.detail

\* Python truthiness of an Optional[str] / of dict.get's result
Truthy(s) == s # None /\ s # ""

\* ------------------------------------------------------------- the store
Catalog ==
    { [prd_id |-> 1, prd_code |-> "4901", prd_name |-> "pen", prd_price |-> 100],
      [prd_id |-> 2, prd_code |-> "4902", prd_name |-> "ink", prd_price |-> 110] }

\* a transaction committed by an earlier call
PriorTxn ==
    [TRD_ID |-> 1, EMP_CD |-> Sentinel, STORE_CD |-> DefaultStoreCd,
     POS_NO |-> DefaultPosNo, TOTAL_AMT |-> 100, TTL_AMT_EX_TAX |-> 90]
PriorDtl ==
    [TRD_ID |-> 1, DTL_ID |-> 1, PRD_ID |-> 1, PRD_CODE |-> "4901",
     PRD_NAME |-> "pen", PRD_PRICE |-> 100, TAX_CD |-> TaxCd]

InitStore ==
    [m_product |-> Catalog, t_txn |-> <<PriorTxn>>, t_txn_dtl |-> <<PriorDtl>>]

NoWrites == [t_txn |-> <<>>, t_txn_dtl |-> <<>>]

\* conn.commit(): the connection's writes become part of the store
Committed(st, writes) ==
    [st EXCEPT !.t_txn = @ \o writes.t_txn, !.t_txn_dtl = @ \o writes.t_txn_dtl]

\* conn.rollback() in the except clause: the store keeps what it had
RolledBackCommits(st, writes) == Committed(st, writes)
RolledBackDeletesLast(st, writes) ==
    LET last == st.t_txn[Len(st.t_txn)].TRD_ID
    IN  [st EXCEPT !.t_txn = SubSeq(@, 1, Len(@) - 1),
                   !.t_txn_dtl = SelectSeq(@, LAMBDA r : r.TRD_ID # last)]
RolledBack(st, writes) == st

\* ---------------------------------------------------------------- inputs
\* the lines a caller submits: product snapshot and price are the caller's;
\* PurchaseItem takes any int as prd_price and as quantity
LinePrices == {-10, 100, 110}
Snapshot(price) ==
    IF price = 110 THEN [prd_id |-> 2, prd_code |-> "4902", prd_name |-> "ink"]
    ELSE [prd_id |-> 1, prd_code |-> "4901", prd_name |-> "pen"]
PurchaseItems ==
    { [prd_id |-> Snapshot(pr).prd_id, prd_code |-> Snapshot(pr).prd_code,
       prd_name |-> Snapshot(pr).prd_name, prd_price |-> pr, quantity |-> q] :
         pr \in LinePrices, q \in (-1)..MaxQty }
ItemLists == UNION { [1..n -> PurchaseItems] : n \in 0..MaxItems }
EmpCds == {Absent, None, "", "E000000001"}
Codes == {Absent, None, "", "4901", "4902", "UNKNOWN"}

NoCall == [kind |-> "none", emp_cd |-> Absent, items |-> <<>>, code |-> Absent]
PurchaseRequests ==
    { [kind |-> "purchase", emp_cd |-> e, items |-> its, code |-> Absent] :
         e \in EmpCds, its \in ItemLists }
SearchRequests ==
    { [kind |-> "search", emp_cd |-> Absent, items |-> <<>>, code |-> c] :
         c \in Codes }
Requests == PurchaseRequests \cup SearchRequests

\* ------------------------------------------------------- pure functions
\* PurchaseRequest.emp_cd: Optional[str] = ""
ParseEmpCd(raw) == IF raw = Absent THEN "" ELSE raw

\* request_body.get("code")
GetCode(raw) == IF raw = Absent THEN None ELSE raw

\* `if not product_code`
CodeMissingNever(code) == FALSE
CodeMissing(code) == ~Truthy(code)

\* `if not request.items`
ItemsEmptyNever(items) == FALSE
ItemsEmpty(items) == Len(items) = 0

RECURSIVE Pow2Below(_, _)
\* the largest power of two <= n (n >= 1), from acc = 1
Pow2Below(n, acc) == IF 2 * acc > n THEN acc ELSE Pow2Below(n, 2 * acc)

\* math.floor(x / 1.1) in IEEE-754 binary64 for an integer x, |x| < 2^31.
\* 1.1 is the double 0x3FF199999999999A = 1.1 * (1 + (4/11) * 2^-52), so the
\* real quotient lies a relative (4/11) * 2^-52 below 10x/11.  When 11 does
\* not divide x the quotient is at least 1/11 away from every integer and
\* the rounded quotient has the floor of 10x/11.  When 11 divides x > 0 the
\* real quotient lies just below the integer n = 10x/11, and rounds to the
\* double below n exactly when its distance to n, n * (4/11) * 2^-52,
\* exceeds half the spacing 2^(e-52) of the doubles below n (2^e <= n <
\* 2^(e+1)), that is when 8n > 11 * 2^e; the floor is then n - 1.  For
\* x < 0 the floor of a value just above -n is -n.
\* (Agrees with CPython's math.floor(x / 1.1) for all -200000 <= x < 3000000.)
FloorDiv1_1(x) ==
    LET n == (10 * x) \div 11
    IN  IF x > 0 /\ x % 11 = 0 /\ 8 * n > 11 * Pow2Below(n, 1) THEN n - 1 ELSE n

RECURSIVE TotalAmountIgnoresQuantity(_)
TotalAmountIgnoresQuantity(items) ==
    IF items = <<>> THEN 0
    ELSE Head(items).prd_price + TotalAmountIgnoresQuantity(Tail(items))

RECURSIVE TotalAmount(_)
\* sum(item.prd_price * item.quantity for item in request.items)
TotalAmount(items) ==
    IF items = <<>> THEN 0
    ELSE Head(items).prd_price * Head(items).quantity + TotalAmount(Tail(items))

RECURSIVE TotalAmountExTaxFloorLast(_)
TotalAmountExTaxFloorLast(items) ==
    IF items = <<>> THEN 0
    ELSE FloorDiv1_1(Head(items).prd_price * Head(items).quantity)
            + TotalAmountExTaxFloorLast(Tail(items))

RECURSIVE TotalAmountExTax(_)
\* sum(math.floor(item.prd_price / 1.1) * item.quantity for item in ...)
TotalAmountExTax(items) ==
    IF items = <<>> THEN 0
    ELSE FloorDiv1_1(Head(items).prd_price) * Head(items).quantity
            + TotalAmountExTax(Tail(items))

\* emp_cd = request.emp_cd if request.emp_cd else "9999999999"
EffectiveEmpCdNoneOnly(emp) == IF emp # None THEN emp ELSE Sentinel
EffectiveEmpCd(emp) == IF Truthy(emp) THEN emp ELSE Sentinel

\* dtl_id += 1
NextDtlIdSame(d) == d
NextDtlId(d) == d + 1

RECURSIVE NextLine(_, _)
\* the first line at or after position i whose range(quantity) is not
\* empty, or Len(items) + 1 when the for loop is over
NextLine(items, i) ==
    IF i > Len(items) \/ items[i].quantity > 0 THEN i ELSE NextLine(items, i + 1)

\* cursor.fetchone() after SELECT ... WHERE CODE = %s
NoRow == [prd_id |-> 0, prd_code |-> None, prd_name |-> None, prd_price |-> 0]
FetchOneAny(products, code) == CHOOSE row \in products : TRUE
FetchOne(products, code) ==
    IF \E row \in products : row.prd_code = code
    THEN CHOOSE row \in products : row.prd_code = code
    ELSE NoRow

\* `if conn: conn.close()` of the finally clause
FinallyConnLeak(c, e) == IF c = "open" /\ e.type = "none" THEN "closed" ELSE c
FinallyConn(c, e) == IF c = "open" THEN "closed" ELSE c

NoResponse == [status |-> 0, detail |-> <<>>, body |-> [none |-> TRUE]]
ErrorResponse(e) == [status |-> e.status, detail |-> e.detail, body |-> [none |-> TRUE]]
\* ProductSearchResponse(product=...)
ProductSearchResponse(row) == [status |-> 200, detail |-> <<>>, body |-> [product |-> row]]
\* PurchaseResponse(success=True, total_amount=..., total_amount_ex_tax=...)
PurchaseResponse(total, total_ex) ==
    [status |-> 200, detail |-> <<>>,
     body |-> [success |-> TRUE, total_amount |-> total, total_amount_ex_tax |-> total_ex]]

\* the endpoint's `except Exception as e`
EndpointPrefix(kind) == IF kind = "search" THEN PrefixSearch ELSE PrefixPurchase
EndpointError(kind, e) == HTTPException(500, <<EndpointPrefix(kind)>> \o Str(e))

\* ------------------------------------------------------------- the state
VARIABLES
    req,                  \* req[p]: the request of call p (NoCall: no call)
    pc,                   \* pc[p]: where call p stands
    store,                \* the committed rows of m_product, t_txn, t_txn_dtl
    nextId,               \* the AUTO_INCREMENT counter of t_txn
    conn,                 \* conn[p]: "none" (conn = None), "open", "closed"
    pend,                 \* pend[p]: the uncommitted writes of p's connection
    ops,                  \* ops[p]: the calls p made on pymysql, in order
    total_amount, total_amount_ex_tax,
    trd_id, dtl_id,
    idx, unit,            \* the two for loops: line idx, units of it written
    retval,               \* the value the with-body returned
    exc,                  \* the exception in flight
    resp                  \* what the caller receives

vars == <<req, pc, store, nextId, conn, pend, ops, total_amount,
          total_amount_ex_tax, trd_id, dtl_id, idx, unit, retval, exc, resp>>

shared == <<store, nextId>>
locals == <<total_amount, total_amount_ex_tax, trd_id, dtl_id, idx, unit>>

InitWith(calls) ==
    /\ req \in calls
    /\ pc = [p \in Procs |-> "idle"]
    /\ store = InitStore
    /\ nextId = 2
    /\ conn = [p \in Procs |-> "none"]
    /\ pend = [p \in Procs |-> NoWrites]
    /\ ops = [p \in Procs |-> <<>>]
    /\ total_amount = [p \in Procs |-> 0]
    /\ total_amount_ex_tax = [p \in Procs |-> 0]
    /\ trd_id = [p \in Procs |-> 0]
    /\ dtl_id = [p \in Procs |-> 0]
    /\ idx = [p \in Procs |-> 0]
    /\ unit = [p \in Procs |-> 0]
    /\ retval = [p \in Procs |-> NoResponse]
    /\ exc = [p \in Procs |-> NoException]
    /\ resp = [p \in Procs |-> NoResponse]

\* one call, any request
SoloCalls ==
    { [p \in Procs |-> IF p = 1 THEN r ELSE NoCall] : r \in Requests }

Init == InitWith(SoloCalls)

\* every call at once, each with one of a few requests
Line(price, quantity) ==
    [prd_id |-> Snapshot(price).prd_id, prd_code |-> Snapshot(price).prd_code,
     prd_name |-> Snapshot(price).prd_name, prd_price |-> price, quantity |-> quantity]
ConcurrentRequests ==
    { [kind |-> "purchase", emp_cd |-> Absent, items |-> its, code |-> Absent] :
         its \in { <<>>, <<Line(100, 2)>>, <<Line(110, 1), Line(100, 1)>> } }
    \cup { [kind |-> "search", emp_cd |-> Absent, items |-> <<>>, code |-> "4901"] }
ConcurrentCalls == [Procs -> ConcurrentRequests]

InitConcurrent == InitWith(ConcurrentCalls)

\* -------------------------------------------------------------- purchase
\* main.py 157-169: the empty-items check and the two totals
PurchaseValidate(p) ==
    /\ pc[p] = "idle"
    /\ req[p].kind = "purchase"
    /\ IF ItemsEmpty(req[p].items)
       THEN /\ resp' = [resp EXCEPT ![p] = ErrorResponse(HTTPException(400, <<MsgNoItems>>))]
            /\ pc' = [pc EXCEPT ![p] = "done"]
            /\ UNCHANGED <<total_amount, total_amount_ex_tax>>
       ELSE /\ total_amount' = [total_amount EXCEPT ![p] = TotalAmount(req[p].items)]
            /\ total_amount_ex_tax' =
                   [total_amount_ex_tax EXCEPT ![p] = TotalAmountExTax(req[p].items)]
            /\ pc' = [pc EXCEPT ![p] = "connect"]
            /\ UNCHANGED resp
    /\ UNCHANGED <<req, shared, conn, pend, ops, trd_id, dtl_id, idx, unit, retval, exc>>

\* main.py 121-128: the missing-code check
SearchValidate(p) ==
    /\ pc[p] = "idle"
    /\ req[p].kind = "search"
    /\ IF CodeMissing(GetCode(req[p].code))
       THEN /\ resp' = [resp EXCEPT ![p] = ErrorResponse(HTTPException(400, <<MsgNoCode>>))]
            /\ pc' = [pc EXCEPT ![p] = "done"]
       ELSE /\ pc' = [pc EXCEPT ![p] = "connect"]
            /\ UNCHANGED resp
    /\ UNCHANGED <<req, shared, conn, pend, ops, locals, retval, exc>>

\* ------------------------------------------------------- get_db_cursor
\* main.py 93-96 with get_db_connection (70-87): pymysql.connect succeeds,
\* or raises and get_db_connection turns that into HTTPException(503),
\* which is no pymysql.Error: the except clause is passed over.
Connect(p) ==
    /\ pc[p] = "connect"
    /\ ops' = [ops EXCEPT ![p] = Append(@, "connect")]
    /\ \/ /\ conn' = [conn EXCEPT ![p] = "open"]
          /\ pc' = [pc EXCEPT ![p] = IF req[p].kind = "search" THEN "select" ELSE "insert_txn"]
          /\ UNCHANGED exc
       \/ /\ exc' = [exc EXCEPT ![p] = HTTPException(503, <<MsgNoConnection>>)]
          /\ pc' = [pc EXCEPT ![p] = "cm_finally"]
          /\ UNCHANGED conn
    /\ UNCHANGED <<req, shared, pend, locals, retval, resp>>

RaisedSwallowed(p, e) ==
    /\ exc' = exc
    /\ pc' = [pc EXCEPT ![p] = "cm_finally"]
RaisedRetries(p, e) ==
    /\ exc' = exc
    /\ pc' = [pc EXCEPT ![p] = "connect"]

\* an exception e leaves the with-body: the generator is resumed at its
\* yield with e, and only a pymysql.Error enters the except clause (99)
Raised(p, e) ==
    /\ exc' = [exc EXCEPT ![p] = e]
    /\ pc' = [pc EXCEPT ![p] = IF e.type = "pymysql.Error" THEN "cm_except" ELSE "cm_finally"]

\* main.py 174-188: INSERT INTO t_txn, then cursor.lastrowid
InsertTxn(p) ==
    /\ pc[p] = "insert_txn"
    /\ ops' = [ops EXCEPT ![p] = Append(@, "execute")]
    /\ \/ /\ pend' = [pend EXCEPT ![p].t_txn = Append(@,
                        [TRD_ID |-> nextId,
                         EMP_CD |-> EffectiveEmpCd(ParseEmpCd(req[p].emp_cd)),
                         STORE_CD |-> DefaultStoreCd,
                         POS_NO |-> DefaultPosNo,
                         TOTAL_AMT |-> total_amount[p],
                         TTL_AMT_EX_TAX |-> total_amount_ex_tax[p]])]
          /\ nextId' = nextId + 1
          /\ trd_id' = [trd_id EXCEPT ![p] = nextId]
          /\ dtl_id' = [dtl_id EXCEPT ![p] = 1]
          /\ idx' = [idx EXCEPT ![p] = NextLine(req[p].items, 1)]
          /\ unit' = [unit EXCEPT ![p] = 0]
          /\ pc' = [pc EXCEPT ![p] = "insert_dtl"]
          /\ UNCHANGED exc
       \/ /\ \E e \in ExecuteErrors : Raised(p, e)
          /\ UNCHANGED <<pend, nextId, trd_id, dtl_id, idx, unit>>
    /\ UNCHANGED <<req, store, conn, total_amount, total_amount_ex_tax, retval, resp>>

\* main.py 197-205: one INSERT INTO t_txn_dtl per unit of the line
InsertDtl(p) ==
    /\ pc[p] = "insert_dtl"
    /\ idx[p] <= Len(req[p].items)
    /\ ops' = [ops EXCEPT ![p] = Append(@, "execute")]
    /\ LET item == req[p].items[idx[p]]
       IN  \/ /\ pend' = [pend EXCEPT ![p].t_txn_dtl = Append(@,
                            [TRD_ID |-> trd_id[p],
                             DTL_ID |-> dtl_id[p],
                             PRD_ID |-> item.prd_id,
                             PRD_CODE |-> item.prd_code,
                             PRD_NAME |-> item.prd_name,
                             PRD_PRICE |-> item.prd_price,
                             TAX_CD |-> TaxCd])]
              /\ dtl_id' = [dtl_id EXCEPT ![p] = NextDtlId(@)]
              /\ IF unit[p] + 1 < item.quantity
                 THEN /\ unit' = [unit EXCEPT ![p] = @ + 1]
                      /\ UNCHANGED idx
                 ELSE /\ unit' = [unit EXCEPT ![p] = 0]
                      /\ idx' = [idx EXCEPT ![p] = NextLine(req[p].items, @ + 1)]
              /\ UNCHANGED <<pc, exc>>
           \/ /\ \E e \in ExecuteErrors : Raised(p, e)
              /\ UNCHANGED <<pend, dtl_id, idx, unit>>
    /\ UNCHANGED <<req, shared, conn, total_amount, total_amount_ex_tax, trd_id,
                   retval, resp>>

\* main.py 207-213: the loops are over, the body returns its response
PurchaseReturn(p) ==
    /\ pc[p] = "insert_dtl"
    /\ idx[p] > Len(req[p].items)
    /\ retval' = [retval EXCEPT ![p] =
                    PurchaseResponse(total_amount[p], total_amount_ex_tax[p])]
    /\ pc' = [pc EXCEPT ![p] = "commit"]
    /\ UNCHANGED <<req, shared, conn, pend, ops, locals, exc, resp>>

\* main.py 132-149: the SELECT, fetchone and the response the body returns
Select(p) ==
    /\ pc[p] = "select"
    /\ ops' = [ops EXCEPT ![p] = Append(@, "execute")]
    /\ \/ /\ retval' = [retval EXCEPT ![p] =
                  ProductSearchResponse(FetchOne(store.m_product, GetCode(req[p].code)))]
          /\ pc' = [pc EXCEPT ![p] = "commit"]
          /\ UNCHANGED exc
       \/ /\ \E e \in ExecuteErrors : Raised(p, e)
          /\ UNCHANGED retval
    /\ UNCHANGED <<req, shared, conn, pend, locals, resp>>

\* main.py 98: conn.commit() once the body has ended without an exception
Commit(p) ==
    /\ pc[p] = "commit"
    /\ ops' = [ops EXCEPT ![p] = Append(@, "commit")]
    /\ \/ /\ store' = Committed(store, pend[p])
          /\ pend' = [pend EXCEPT ![p] = NoWrites]
          /\ pc' = [pc EXCEPT ![p] = "cm_finally"]
          /\ UNCHANGED exc
       \/ /\ Raised(p, PyMySqlError)
          /\ UNCHANGED <<store, pend>>
    /\ UNCHANGED <<req, nextId, conn, locals, retval, resp>>

\* main.py 99-103: rollback, then HTTPException(500) with str(err) in its
\* detail; a rollback that raises leaves the clause with its own error
CmExcept(p) ==
    /\ pc[p] = "cm_except"
    /\ ops' = [ops EXCEPT ![p] = Append(@, "rollback")]
    /\ \/ /\ store' = RolledBack(store, pend[p])
          /\ pend' = [pend EXCEPT ![p] = NoWrites]
          /\ exc' = [exc EXCEPT ![p] = HTTPException(500, <<PrefixDb>> \o Str(@))]
       \/ /\ exc' = [exc EXCEPT ![p] = PyMySqlError]
          /\ UNCHANGED <<store, pend>>
    /\ pc' = [pc EXCEPT ![p] = "cm_finally"]
    /\ UNCHANGED <<req, nextId, conn, locals, retval, resp>>

\* main.py 104-106, then the endpoint: the connection is closed (the server
\* drops a transaction left open); with no exception in flight the caller
\* gets the body's return value, else the endpoint's `except Exception`
\* (151-153, 215-217) answers 500 with str(e) in the detail
CmFinally(p) ==
    /\ pc[p] = "cm_finally"
    /\ LET after == FinallyConn(conn[p], exc[p])
           closing == conn[p] = "open" /\ after = "closed"
       IN  /\ conn' = [conn EXCEPT ![p] = after]
           /\ ops' = [ops EXCEPT ![p] = IF closing THEN Append(@, "close") ELSE @]
           /\ pend' = [pend EXCEPT ![p] = IF closing THEN NoWrites ELSE @]
    /\ resp' = [resp EXCEPT ![p] =
                  IF exc[p].type = "none" THEN retval[p]
                  ELSE ErrorResponse(EndpointError(req[p].kind, exc[p]))]
    /\ pc' = [pc EXCEPT ![p] = "done"]
    /\ UNCHANGED <<req, shared, locals, retval, exc>>

Next ==
    \E p \in Procs :
        \/ PurchaseValidate(p)
        \/ SearchValidate(p)
        \/ Connect(p)
        \/ InsertTxn(p)
        \/ InsertDtl(p)
        \/ PurchaseReturn(p)
        \/ Select(p)
        \/ Commit(p)
        \/ CmExcept(p)
        \/ CmFinally(p)

Spec == Init /\ [][Next]_vars

SpecConcurrent == InitConcurrent /\ [][Next]_vars

\* ================================================================ claims
Range(s) == { s[i] : i \in DOMAIN s }
Done(p) == pc[p] = "done"
IsPurchase(p) == req[p].kind = "purchase"
IsSearch(p) == req[p].kind = "search"
Succeeded(p) == Done(p) /\ resp[p].status = 200
HeadersOf(t) == SelectSeq(store.t_txn, LAMBDA h : h.TRD_ID = t)
RowsOf(t) == SelectSeq(store.t_txn_dtl, LAMBDA r : r.TRD_ID = t)
AllPositive(items) == \A i \in DOMAIN items : items[i].quantity >= 1
NonNegativePrices(items) == \A i \in DOMAIN items : items[i].prd_price >= 0

RECURSIVE Units(_)
\* the submitted lines, each repeated quantity times, in submission order
Units(items) ==
    IF items = <<>> THEN <<>>
    ELSE [k \in 1..(IF Head(items).quantity > 0 THEN Head(items).quantity ELSE 0)
            |-> Head(items)] \o Units(Tail(items))

RECURSIVE SumQuantity(_)
SumQuantity(items) ==
    IF items = <<>> THEN 0 ELSE Head(items).quantity + SumQuantity(Tail(items))

RECURSIVE PriceSum(_)
PriceSum(units) ==
    IF units = <<>> THEN 0 ELSE Head(units).prd_price + PriceSum(Tail(units))

RECURSIVE ExTaxSum(_)
ExTaxSum(units) ==
    IF units = <<>> THEN 0 ELSE FloorDiv1_1(Head(units).prd_price) + ExTaxSum(Tail(units))

\* C1: atomicity of purchase. Once a purchase call has returned with an
\* error, the store holds no header and no detail row with the transaction
\* identifier of that call and the call's connection holds no pending write;
\* every header in the store other than the earlier transaction's belongs
\* to a call whose commit succeeded, stands there once, and stands there
\* together with all the detail rows of that call (one per unit); and no
\* detail row is in the store without its header.
C1_Atomicity ==
    /\ \A p \in Procs :
          (IsPurchase(p) /\ Done(p) /\ resp[p].status # 200) =>
              /\ pend[p] = NoWrites
              /\ \A i \in DOMAIN store.t_txn : store.t_txn[i].TRD_ID # trd_id[p]
              /\ \A i \in DOMAIN store.t_txn_dtl : store.t_txn_dtl[i].TRD_ID # trd_id[p]
    /\ \A i \in DOMAIN store.t_txn :
          LET h == store.t_txn[i]
          IN  h # PriorTxn =>
                 \E p \in Procs :
                    /\ IsPurchase(p)
                    /\ trd_id[p] = h.TRD_ID
                    /\ pc[p] \in {"cm_finally", "done"}
                    /\ Done(p) => resp[p].status = 200
                    /\ Len(HeadersOf(h.TRD_ID)) = 1
                    /\ Len(RowsOf(h.TRD_ID)) = Len(Units(req[p].items))
    /\ \A i \in DOMAIN store.t_txn_dtl :
          Len(HeadersOf(store.t_txn_dtl[i].TRD_ID)) = 1

\* C1 witness: a purchase has returned an error after its header and at
\* least two detail rows were written and a third insert failed
C1_Witness ==
    \E p \in Procs :
        /\ IsPurchase(p) /\ Done(p) /\ resp[p].status = 500
        /\ dtl_id[p] = 3
        /\ ops[p] = <<"connect", "execute", "execute", "execute", "execute",
                      "rollback", "close">>

\* C2: after a successful purchase whose quantities are all >= 1 the store
\* holds exactly N = q1 + ... + qk detail rows with the call's transaction
\* identifier; the k-th of them has DTL_ID k and the product snapshot of
\* the k-th unit in submission order; the identifier is that of the one
\* header the call inserted, and differs from the earlier transaction's.
C2_DetailRows ==
    \A p \in Procs :
        (IsPurchase(p) /\ Succeeded(p) /\ AllPositive(req[p].items)) =>
            LET rows == RowsOf(trd_id[p])
                units == Units(req[p].items)
            IN  /\ Len(rows) = SumQuantity(req[p].items)
                /\ Len(units) = Len(rows)
                /\ \A k \in 1..Len(rows) :
                      /\ rows[k].DTL_ID = k
                      /\ rows[k].PRD_ID = units[k].prd_id
                      /\ rows[k].PRD_CODE = units[k].prd_code
                      /\ rows[k].PRD_NAME = units[k].prd_name
                      /\ rows[k].PRD_PRICE = units[k].prd_price
                      /\ rows[k].TAX_CD = TaxCd
                /\ Len(HeadersOf(trd_id[p])) = 1
                /\ trd_id[p] # PriorTxn.TRD_ID

\* C2 witness: a successful purchase of two lines, the first of quantity 2
\* and the second of quantity 3 at another price
C2_Witness ==
    \E p \in Procs :
        /\ IsPurchase(p) /\ Succeeded(p)
        /\ Len(req[p].items) = 2
        /\ req[p].items[1].quantity = 2
        /\ req[p].items[2].quantity = 3
        /\ req[p].items[1].prd_price # req[p].items[2].prd_price
        /\ Len(RowsOf(trd_id[p])) = 5

\* C3: for lines with non-negative prices and positive quantities, a
\* successful purchase returns, and has committed in its header, the total
\* that is the sum of the unit price over every unit bought and the
\* tax-excluded total that is the sum over every unit bought of
\* math.floor(unit price / 1.1): the floor is taken per unit, before the
\* multiplication by the quantity.  One line of price 100 and quantity 3
\* gives (300, 270).
C3_Totals ==
    \A p \in Procs :
        (IsPurchase(p) /\ Succeeded(p) /\ AllPositive(req[p].items)
                       /\ NonNegativePrices(req[p].items)) =>
            LET units == Units(req[p].items)
                body == resp[p].body
                hs == HeadersOf(trd_id[p])
            IN  /\ body.success = TRUE
                /\ body.total_amount = PriceSum(units)
                /\ body.total_amount_ex_tax = ExTaxSum(units)
                /\ Len(hs) = 1
                /\ hs[1].TOTAL_AMT = body.total_amount
                /\ hs[1].TTL_AMT_EX_TAX = body.total_amount_ex_tax
                /\ (Len(req[p].items) = 1 /\ req[p].items[1].prd_price = 100
                      /\ req[p].items[1].quantity = 3) =>
                        (body.total_amount = 300 /\ body.total_amount_ex_tax = 270)

\* C3 witness: the purchase of one line of price 100 and quantity 3 has
\* succeeded with (300, 270)
C3_Witness ==
    \E p \in Procs :
        /\ IsPurchase(p) /\ Succeeded(p)
        /\ Len(req[p].items) = 1
        /\ req[p].items[1].prd_price = 100
        /\ req[p].items[1].quantity = 3
        /\ resp[p].body.total_amount = 300
        /\ resp[p].body.total_amount_ex_tax = 270

\* C4 (as claimed): every header in the store has
\* TOTAL_AMT >= TTL_AMT_EX_TAX >= 0, whatever request purchase accepted.
C4_HeaderTotalsOrdered ==
    \A i \in DOMAIN store.t_txn :
        /\ store.t_txn[i].TOTAL_AMT >= store.t_txn[i].TTL_AMT_EX_TAX
        /\ store.t_txn[i].TTL_AMT_EX_TAX >= 0

\* C4 failing input: one line of price 100 and quantity -1 is committed
\* with TOTAL_AMT = -100 and TTL_AMT_EX_TAX = -90.

\* the requests the two validations are to reject
Invalid(p) ==
    \/ IsPurchase(p) /\ req[p].items = <<>>
    \/ IsSearch(p) /\ req[p].code \in {Absent, None, ""}

\* C5: a purchase with an empty items list and a search_product with a
\* missing, null or empty code never call pymysql (no connect, no execute),
\* hold no connection and no pending write, and return status 400 with the
\* validation message; as long as no other call has used the storage, the
\* store and its identifier counter are what they were.
C5_ValidationTouchesNoStorage ==
    \A p \in Procs :
        Invalid(p) =>
            /\ ops[p] = <<>>
            /\ conn[p] = "none"
            /\ pend[p] = NoWrites
            /\ pc[p] \in {"idle", "done"}
            /\ Done(p) =>
                  /\ resp[p].status = 400
                  /\ resp[p].detail =
                        (IF IsPurchase(p) THEN <<MsgNoItems>> ELSE <<MsgNoCode>>)
            /\ (\A q \in Procs \ {p} : ops[q] = <<>>) =>
                  (store = InitStore /\ nextId = 2)

\* C5 witness: a purchase with no items has been answered 400
C5_Witness ==
    \E p \in Procs :
        /\ IsPurchase(p) /\ req[p].items = <<>>
        /\ Done(p) /\ resp[p].status = 400

\* a call whose pymysql.connect raised
ConnectFailed(p) == Done(p) /\ ops[p] = <<"connect">> /\ conn[p] = "none"

\* C6 (as claimed): a call that could not establish its connection answers
\* 503, and has written nothing.
C6_UnavailableIs503 ==
    \A p \in Procs :
        ConnectFailed(p) => (resp[p].status = 503 /\ pend[p] = NoWrites)

\* C7: a call that has returned holds no open connection: the connection
\* it obtained, if any, is closed; close is the last call made on it,
\* whatever came before (commit, a failed execute, a failed commit, a
\* failed rollback, an exception that is no pymysql.Error); and every
\* execute, commit and rollback is made on the open connection.
C7_ConnectionClosed ==
    \A p \in Procs :
        /\ Done(p) => conn[p] # "open"
        /\ (Done(p) /\ Len(ops[p]) > 1) =>
              (conn[p] = "closed" /\ ops[p][Len(ops[p])] = "close")
        /\ \A i \in DOMAIN ops[p] : ops[p][i] = "close" => i = Len(ops[p])
        /\ conn[p] = "closed" => (Done(p) /\ ops[p][Len(ops[p])] = "close")
        /\ pc[p] \in {"select", "insert_txn", "insert_dtl", "commit", "cm_except"}
              => conn[p] = "open"

\* C7 witness: a call has returned after its rollback itself failed, with
\* its connection closed
C7_Witness ==
    \E p \in Procs :
        /\ Done(p) /\ conn[p] = "closed"
        /\ exc[p] = PyMySqlError
        /\ Len(ops[p]) >= 2
        /\ ops[p][Len(ops[p]) - 1] = "rollback"

\* C8: the header a purchase commits carries the sentinel "9999999999"
\* when the request's emp_cd is absent, null or empty, and the request's
\* emp_cd itself otherwise.
C8_EmployeeCode ==
    \A p \in Procs :
        (IsPurchase(p) /\ Succeeded(p)) =>
            /\ Len(HeadersOf(trd_id[p])) = 1
            /\ HeadersOf(trd_id[p])[1].EMP_CD =
                  (IF req[p].emp_cd \in {Absent, None, ""} THEN "9999999999"
                   ELSE req[p].emp_cd)

\* C8 witness: a purchase sent with emp_cd "" has committed its header
C8_Witness ==
    \E p \in Procs :
        /\ IsPurchase(p) /\ Succeeded(p)
        /\ req[p].emp_cd = ""
        /\ HeadersOf(trd_id[p])[1].EMP_CD = "9999999999"

\* the product row with a code, NoRow (null) when there is none
RowWithCode(code) ==
    IF \E row \in Catalog : row.prd_code = code
    THEN CHOOSE row \in Catalog : row.prd_code = code
    ELSE NoRow

\* C9: a search_product with a non-empty code that ends with no exception
\* answers 200, with product null when no row of m_product has the code and
\* with that row's prd_id, prd_code, prd_name and prd_price when one has;
\* whatever its outcome it writes nothing, and with no purchase among the
\* calls the store stays what it was.
C9_SearchResult ==
    \A p \in Procs :
        (IsSearch(p) /\ ~Invalid(p)) =>
            /\ pend[p] = NoWrites
            /\ (\A q \in Procs : ~IsPurchase(q)) => (store = InitStore /\ nextId = 2)
            /\ (Done(p) /\ exc[p] = NoException) =>
                  /\ resp[p].status = 200
                  /\ resp[p].body.product = RowWithCode(req[p].code)
                  /\ (req[p].code = "UNKNOWN") => resp[p].body.product = NoRow
                  /\ (req[p].code = "4902") => resp[p].body.product.prd_price = 110

\* C9 witness: the search for "UNKNOWN" has answered 200 with product null
C9_Witness ==
    \E p \in Procs :
        /\ IsSearch(p) /\ req[p].code = "UNKNOWN"
        /\ Succeeded(p)
        /\ resp[p].body.product = NoRow

\* C10 (as claimed): the detail of a server-error response does not
\* contain the backend's error text.
C10_SanitizedDetail ==
    \A p \in Procs :
        (Done(p) /\ resp[p].status >= 500) =>
            RawBackendText \notin Range(resp[p].detail)

\* C10 failing input: a purchase whose header insert raises pymysql.Error
\* is answered 500 with the backend's text in the detail.

\* C11 (as claimed): the tax-excluded unit price the code computes is the
\* exact floor of 10 * p / 11 for every non-negative price p: a successful
\* purchase of one line of quantity 1 returns that floor as its
\* tax-excluded total, and price 110 gives (110, 100).
C11_FloatFloorIsExact ==
    \A p \in Procs :
        (IsPurchase(p) /\ Succeeded(p) /\ Len(req[p].items) = 1
            /\ req[p].items[1].prd_price >= 0 /\ req[p].items[1].quantity = 1) =>
            /\ resp[p].body.total_amount_ex_tax = (10 * req[p].items[1].prd_price) \div 11
            /\ req[p].items[1].prd_price = 110 =>
                  (resp[p].body.total_amount = 110 /\ resp[p].body.total_amount_ex_tax = 100)

\* a call whose exception left get_db_cursor after the connection was got
FailedWithConnection(p) == Done(p) /\ conn[p] = "closed" /\ exc[p] # NoException

\* C12 (as claimed): after any exception raised while the connection is
\* held, rollback is called on the connection before it is closed, and
\* commit is not called after the rollback.
C12_RollbackOnAnyException ==
    \A p \in Procs :
        FailedWithConnection(p) =>
            /\ \E i \in DOMAIN ops[p] :
                  /\ ops[p][i] = "rollback"
                  /\ \E j \in DOMAIN ops[p] : j > i /\ ops[p][j] = "close"
                  /\ \A j \in DOMAIN ops[p] : j > i => ops[p][j] # "commit"

\* a call whose conn.commit() raised
CommitFailed(p) ==
    \E i \in DOMAIN ops[p] :
        i < Len(ops[p]) /\ ops[p][i] = "commit" /\ ops[p][i + 1] = "rollback"

\* C13: the caller of purchase gets success = true only when the call made
\* its header insert, one detail insert per unit, then a commit that did
\* not raise, then close, and the header and its rows are in the store; no
\* response is given before the call has ended; when the commit raises the
\* caller gets status 500 although the body had built its success response,
\* and nothing of the call is in the store.
C13_SuccessOnlyAfterCommit ==
    \A p \in Procs :
        IsPurchase(p) =>
            /\ resp[p] # NoResponse => Done(p)
            /\ Succeeded(p) =>
                  LET n == Len(ops[p])
                  IN  /\ n = 4 + Len(Units(req[p].items))
                      /\ ops[p][1] = "connect"
                      /\ \A i \in 2..(n - 2) : ops[p][i] = "execute"
                      /\ ops[p][n - 1] = "commit"
                      /\ ops[p][n] = "close"
                      /\ exc[p] = NoException
                      /\ resp[p].body.success = TRUE
                      /\ Len(HeadersOf(trd_id[p])) = 1
                      /\ Len(RowsOf(trd_id[p])) = Len(Units(req[p].items))
            /\ (Done(p) /\ CommitFailed(p)) =>
                  /\ retval[p].status = 200
                  /\ resp[p].status = 500
                  /\ resp[p] # retval[p]
                  /\ Len(HeadersOf(trd_id[p])) = 0
                  /\ Len(RowsOf(trd_id[p])) = 0

\* C13 witness: a purchase whose commit raised, after the body had built
\* its success response, has been answered 500
C13_Witness ==
    \E p \in Procs :
        /\ IsPurchase(p) /\ Done(p) /\ CommitFailed(p)
        /\ retval[p].status = 200 /\ retval[p].body.success = TRUE
        /\ resp[p].status = 500

\* a purchase whose commit has succeeded
CommittedCall(p) ==
    /\ IsPurchase(p)
    /\ pc[p] \in {"cm_finally", "done"}
    /\ exc[p] = NoException
    /\ "commit" \in Range(ops[p])

\* C14: with the calls interleaved in any way, the transaction identifiers
\* of two calls differ, and differ from the earlier transaction's; the
\* writes pending on a call's connection all carry that call's identifier;
\* a call whose commit succeeded has in the store its one header and
\* exactly its units as detail rows, with DTL_ID 1..N in submission order,
\* whatever the other calls do afterwards; a call that has not committed
\* has no row in the store; the earlier transaction's rows stay the first
\* of their tables; and the store holds no other header and no other row.
C14_Isolation ==
    /\ \A p \in Procs :
          /\ trd_id[p] # 0 =>
                /\ trd_id[p] # PriorTxn.TRD_ID
                /\ \A q \in Procs \ {p} : trd_id[q] # trd_id[p]
          /\ \A i \in DOMAIN pend[p].t_txn : pend[p].t_txn[i].TRD_ID = trd_id[p]
          /\ \A i \in DOMAIN pend[p].t_txn_dtl : pend[p].t_txn_dtl[i].TRD_ID = trd_id[p]
          /\ pend[p] # NoWrites => conn[p] = "open"
          /\ CommittedCall(p) =>
                LET rows == RowsOf(trd_id[p])
                    units == Units(req[p].items)
                IN  /\ Len(HeadersOf(trd_id[p])) = 1
                    /\ Len(rows) = Len(units)
                    /\ \A k \in 1..Len(rows) :
                          /\ rows[k].DTL_ID = k
                          /\ rows[k].PRD_ID = units[k].prd_id
                          /\ rows[k].PRD_PRICE = units[k].prd_price
          /\ (~CommittedCall(p) /\ trd_id[p] # 0) =>
                (Len(HeadersOf(trd_id[p])) = 0 /\ Len(RowsOf(trd_id[p])) = 0)
    /\ Len(store.t_txn) = 1 + Cardinality({ p \in Procs : CommittedCall(p) })
    /\ store.t_txn[1] = PriorTxn
    /\ store.t_txn_dtl[1] = PriorDtl
    /\ Len(RowsOf(PriorTxn.TRD_ID)) = 1
    /\ \A i \in DOMAIN store.t_txn_dtl :
          \/ store.t_txn_dtl[i].TRD_ID = PriorTxn.TRD_ID
          \/ \E p \in Procs :
                CommittedCall(p) /\ trd_id[p] = store.t_txn_dtl[i].TRD_ID

\* C14 witness: call q inserted its header first and is about to roll its
\* pending writes back, while call p, which inserted its header later, has
\* already committed and returned
C14_Witness ==
    \E p, q \in Procs :
        /\ p # q
        /\ IsPurchase(p) /\ Succeeded(p)
        /\ IsPurchase(q) /\ pc[q] = "cm_except"
        /\ Len(pend[q].t_txn_dtl) >= 1
        /\ trd_id[q] < trd_id[p]

Count(seq, x) == Cardinality({ i \in DOMAIN seq : seq[i] = x })

\* C15: one call calls connect at most once, commit at most once, rollback
\* at most once and close at most once; a purchase executes at most one
\* statement for its header and one per unit, has at most one header
\* pending or committed, and takes at most one identifier; so the store
\* holds at most one header more per purchase call that committed.
C15_NoRetry ==
    /\ \A p \in Procs :
          /\ Count(ops[p], "connect") <= 1
          /\ Count(ops[p], "commit") <= 1
          /\ Count(ops[p], "rollback") <= 1
          /\ Count(ops[p], "close") <= 1
          /\ IsPurchase(p) =>
                /\ Count(ops[p], "execute") <= 1 + Len(Units(req[p].items))
                /\ Len(pend[p].t_txn) + Len(HeadersOf(trd_id[p])) <= 1
          /\ IsSearch(p) => Count(ops[p], "execute") <= 1
    /\ Len(store.t_txn) <=
          1 + Cardinality({ p \in Procs : IsPurchase(p) /\ "commit" \in Range(ops[p]) })
    /\ nextId <= 2 + Cardinality({ p \in Procs : IsPurchase(p) /\ trd_id[p] # 0 })

\* C15 witness: a purchase whose header insert raised has returned 500
\* after one connect, one execute, one rollback and one close
C15_Witness ==
    \E p \in Procs :
        /\ IsPurchase(p) /\ Done(p) /\ resp[p].status = 500
        /\ ops[p] = <<"connect", "execute", "rollback", "close">>

\* a detail row carries the product snapshot of a submitted line
Carries(row, line) ==
    /\ row.PRD_ID = line.prd_id
    /\ row.PRD_CODE = line.prd_code
    /\ row.PRD_NAME = line.prd_name
    /\ row.PRD_PRICE = line.prd_price
SameSnapshot(a, b) ==
    /\ a.prd_id = b.prd_id
    /\ a.prd_code = b.prd_code
    /\ a.prd_name = b.prd_name
    /\ a.prd_price = b.prd_price

RECURSIVE RowPriceSum(_)
RowPriceSum(rows) ==
    IF rows = <<>> THEN 0 ELSE Head(rows).PRD_PRICE + RowPriceSum(Tail(rows))

RECURSIVE QuantityOfSnapshot(_, _)
\* the units submitted with the snapshot of line: the sum of the quantities
\* of the lines that carry it
QuantityOfSnapshot(items, line) ==
    IF items = <<>> THEN 0
    ELSE (IF SameSnapshot(Head(items), line) THEN Head(items).quantity ELSE 0)
            + QuantityOfSnapshot(Tail(items), line)

\* C16 (as claimed): for a committed purchase with all quantities >= 1 the
\* header's TOTAL_AMT is the sum of PRD_PRICE over its detail rows, and for
\* every line the number of detail rows carrying the line's snapshot is the
\* line's quantity.
C16_RowsPerLineIsQuantity ==
    \A p \in Procs :
        (IsPurchase(p) /\ Succeeded(p) /\ AllPositive(req[p].items)) =>
            LET rows == RowsOf(trd_id[p])
            IN  /\ Len(HeadersOf(trd_id[p])) = 1
                /\ HeadersOf(trd_id[p])[1].TOTAL_AMT = RowPriceSum(rows)
                /\ \A i \in DOMAIN req[p].items :
                      Len(SelectSeq(rows, LAMBDA r : Carries(r, req[p].items[i])))
                         = req[p].items[i].quantity

\* C16 (amended): for a committed purchase with all quantities >= 1 the
\* header's TOTAL_AMT is the sum of PRD_PRICE over its detail rows, and for
\* every line the number of detail rows carrying the line's snapshot is the
\* sum of the quantities of the submitted lines that carry that snapshot
\* (the line's own quantity when no other line carries it).
C16_HeaderDetailConsistency ==
    \A p \in Procs :
        (IsPurchase(p) /\ Succeeded(p) /\ AllPositive(req[p].items)) =>
            LET rows == RowsOf(trd_id[p])
                items == req[p].items
            IN  /\ Len(HeadersOf(trd_id[p])) = 1
                /\ HeadersOf(trd_id[p])[1].TOTAL_AMT = RowPriceSum(rows)
                /\ \A i \in DOMAIN items :
                      /\ Len(SelectSeq(rows, LAMBDA r : Carries(r, items[i])))
                            = QuantityOfSnapshot(items, items[i])
                      /\ (\A j \in DOMAIN items \ {i} : ~SameSnapshot(items[i], items[j]))
                            => Len(SelectSeq(rows, LAMBDA r : Carries(r, items[i])))
                                  = items[i].quantity

\* C16 witness: a committed purchase of two lines with the same snapshot,
\* of quantities 1 and 2, has three rows carrying it
C16_Witness ==
    \E p \in Procs :
        /\ IsPurchase(p) /\ Succeeded(p)
        /\ Len(req[p].items) = 2
        /\ SameSnapshot(req[p].items[1], req[p].items[2])
        /\ req[p].items[1].quantity = 1
        /\ req[p].items[2].quantity = 2
        /\ Len(RowsOf(trd_id[p])) = 3

====
